---- MODULE Spec2Model ----
(***************************************************************************)
(* The lottery pool of nilicule/lottoCheck: the draw ledger (trekking.csv), *)
(* the roster (lottery_participants.csv), the progress store               *)
(* (lottery_progress.json) and the commands that read and write them:      *)
(* drawing.py (main), lottery.py (run_interactive_mode, start_new_lottery) *)
(* and pdf_parser.py (process_lottery_pdf).                                *)
(*                                                                         *)
(* Strings are sequences of code points, so that Python's str comparison,  *)
(* startswith and concatenation are computed, not assumed.  A draw date is *)
(* the day number of its '%d-%b-%y' text: within one century strftime and  *)
(* to_datetime are inverse, so equal texts are equal days.                 *)
(***************************************************************************)
EXTENDS Integers, Sequences, FiniteSets, TLC

\* ------------------------------------------------------------------ bounds
\* Longest ledger a run may produce (a new draw is accepted below it).
MaxLedger == 2

\* --------------------------------------------------------- program constants
ChosenSize == 10
WinThreshold == 10
WeekDays == 7
DrawSize == 6
NumMin == 1
NumMax == 45

\* ------------------------------------------------------------------ strings
Brink == <<66, 114, 105, 110, 107>>
Jan == <<74, 97, 110>>
Smit == <<83, 109, 105, 116>>
Al == <<65, 108>>
Space == <<32>>

RECURSIVE StrLess(_, _)
\* Python str "<": code point by code point, a proper prefix is smaller.
StrLess(a, b) ==
    IF b = <<>> THEN FALSE
    ELSE IF a = <<>> THEN TRUE
    ELSE IF Head(a) # Head(b) THEN Head(a) < Head(b)
    ELSE StrLess(Tail(a), Tail(b))

StartsWith(s, p) == Len(p) <= Len(s) /\ SubSeq(s, 1, Len(p)) = p

RECURSIVE Digits(_)
\* str(n) for n >= 0
Digits(n) == IF n < 10 THEN <<48 + n>> ELSE Digits(n \div 10) \o <<48 + (n % 10)>>

\* str.strip() for the blanks the model's texts can hold (leading and trailing spaces)
RECURSIVE Strip(_)
Strip(s) ==
    IF s = <<>> THEN s
    ELSE IF Head(s) = 32 THEN Strip(Tail(s))
    ELSE IF s[Len(s)] = 32 THEN Strip(SubSeq(s, 1, Len(s) - 1))
    ELSE s

\* ---------------------------------------------------------- list utilities
Range(s) == {s[i] : i \in DOMAIN s}

RECURSIVE InsertAsc(_, _)
InsertAsc(s, x) ==
    IF s = <<>> THEN <<x>>
    ELSE IF x < Head(s) THEN <<x>> \o s
    ELSE <<Head(s)>> \o InsertAsc(Tail(s), x)

RECURSIVE Sorted(_)
\* sorted(list) of integers, duplicates kept
Sorted(s) == IF s = <<>> THEN <<>> ELSE InsertAsc(Sorted(SubSeq(s, 1, Len(s) - 1)), s[Len(s)])

RECURSIVE SetToSortedSeq(_)
\* sorted(list(a_set))
SetToSortedSeq(S) ==
    IF S = {} THEN <<>>
    ELSE LET m == CHOOSE x \in S : \A y \in S : x <= y
         IN  <<m>> \o SetToSortedSeq(S \ {m})

RECURSIVE Filter(_, _)
\* [n for n in s if n in W]
Filter(s, W) ==
    IF s = <<>> THEN <<>>
    ELSE (IF Head(s) \in W THEN <<Head(s)>> ELSE <<>>) \o Filter(Tail(s), W)

\* ------------------------------------------------------------ progress store
NoPlayers == [n \in {} |-> 0]
EmptyProgress == [players |-> NoPlayers, processed_draws |-> <<>>]
\* the progress file: absent, or present; valid: its text is the dump of a store
\* (data); error: what reading a text that is no dump raises in load_progress
NoProgressFile == [exists |-> FALSE, valid |-> FALSE, error |-> "none", data |-> EmptyProgress]

\* the file a process killed inside save_progress leaves: open(.., 'w') has emptied
\* it and json.dump has written at most a proper prefix of the text
TornProgressFile ==
    [exists |-> TRUE, valid |-> FALSE, error |-> "JSONDecodeError", data |-> EmptyProgress]

\* a file whose content was replaced outside the program by JSON text that is no
\* store ("[]", "null"): json.load returns it and saved_progress.get raises
DamagedProgressFile ==
    [exists |-> TRUE, valid |-> FALSE, error |-> "AttributeError", data |-> EmptyProgress]

\* (mutation of CorrectNumbers: the entry is not looked up)
CorrectNumbersForgotten(prog, name) == <<>>

\* self.progress['players'].get(name, {}).get('correct_numbers', [])
CorrectNumbers(prog, name) ==
    IF name \in DOMAIN prog.players THEN prog.players[name].correct_numbers ELSE <<>>

\* load_progress: the fresh store of __init__, updated from the file when it exists
\* and json.load accepts it (JSONDecodeError: "Starting with fresh progress file")
LoadProgress(file) ==
    IF file.exists /\ file.valid
    THEN [players |-> file.data.players, processed_draws |-> file.data.processed_draws]
    ELSE EmptyProgress

\* load_progress lets the exception go: "except (json.JSONDecodeError, IOError)"
LoadRaises(file) == file.exists /\ ~file.valid /\ file.error # "JSONDecodeError"

\* how load_progress ended: the saved store was taken, the fresh store was kept
\* (no file, or "Starting with fresh progress file"), or an exception left it
LoadResult(file) ==
    IF LoadRaises(file) THEN "failed"
    ELSE IF file.exists /\ file.valid THEN "loaded" ELSE "fresh"

\* (mutation of AllCorrect: the entry is overwritten with this draw's matches)
AllCorrectOverwritten(current_correct, new_correct) == new_correct

\* update_progress: all_correct = current_correct.union(new_correct)
AllCorrect(current_correct, new_correct) == current_correct \cup new_correct

\* (mutation of TotalCorrect: the matches of this draw are added to the old count)
TotalCorrectAdded(current_correct, new_correct) ==
    Cardinality(current_correct) + Cardinality(new_correct)

\* update_progress: total_correct = len(all_correct)
TotalCorrect(current_correct, new_correct) ==
    Cardinality(AllCorrect(current_correct, new_correct))

UpdatePlayer(players, name, correct_numbers) ==
    LET base == IF name \in DOMAIN players THEN players[name]
                ELSE [total_correct |-> 0, correct_numbers |-> <<>>]
        all_correct == AllCorrect(Range(base.correct_numbers), Range(correct_numbers))
        entry == [total_correct |-> TotalCorrect(Range(base.correct_numbers),
                                                 Range(correct_numbers)),
                  correct_numbers |-> SetToSortedSeq(all_correct)]
    IN  [n \in DOMAIN players \cup {name} |-> IF n = name THEN entry ELSE players[n]]

RECURSIVE UpdatePlayers(_, _)
\* the for loop of update_progress over player_results, in order
UpdatePlayers(players, player_results) ==
    IF player_results = <<>> THEN players
    ELSE UpdatePlayers(UpdatePlayer(players, Head(player_results)[1], Head(player_results)[2]),
                       Tail(player_results))

\* (mutation of AppendProcessed: the date is appended without the membership test)
AppendProcessedAlways(processed_draws, draw_date) == Append(processed_draws, draw_date)

\* update_progress: if draw_date not in processed_draws: append
AppendProcessed(processed_draws, draw_date) ==
    IF draw_date \notin Range(processed_draws)
    THEN Append(processed_draws, draw_date) ELSE processed_draws

UpdateProgress(prog, player_results, draw_date) ==
    [players |-> UpdatePlayers(prog.players, player_results),
     processed_draws |-> AppendProcessed(prog.processed_draws, draw_date)]

\* save_progress: json.dump of the whole store
SaveProgress(prog) == [exists |-> TRUE, valid |-> TRUE, error |-> "none", data |-> prog]

\* ------------------------------------------------------------------- roster
NoRoster == [exists |-> FALSE, rows |-> <<>>]

\* One line of the PDF text as the regular expression of parse_pdf_lottery_data sees
\* it: "row" (it matches: a cleaned name and at least ten numbers), "text" (it does
\* not match) or "skip" (blank or header line).
RowLine(name, numbers) == [kind |-> "row", name |-> name, numbers |-> numbers, text |-> <<>>]
TextLine(text) == [kind |-> "text", name |-> <<>>, numbers |-> <<>>, text |-> text]
SkipLine == [kind |-> "skip", name |-> <<>>, numbers |-> <<>>, text |-> <<>>]

NameCount(name_count, name) == IF name \in DOMAIN name_count THEN name_count[name] ELSE 0

\* f"{name} ({name_count[name]})" if name_count[name] > 1 else name
UniqueName(name, count) ==
    IF count > 1 THEN name \o <<32, 40>> \o Digits(count) \o <<41>> ELSE name

\* the body of "for line in lines" on one line; st = [participants, last_name, name_count]
ParseLine(st, line) ==
    IF line.kind = "skip" THEN st
    ELSE IF line.kind = "row"
    THEN LET numbers == SubSeq(line.numbers, 1, ChosenSize)
             count == NameCount(st.name_count, line.name) + 1
         IN  IF Len(numbers) = ChosenSize
             THEN [participants |-> Append(st.participants,
                                           [Name |-> Strip(UniqueName(line.name, count)),
                                            numbers |-> numbers]),
                   last_name |-> Strip(line.name),
                   name_count |-> [n \in DOMAIN st.name_count \cup {line.name} |->
                                      IF n = line.name THEN count ELSE st.name_count[n]]]
             ELSE st
    ELSE IF st.last_name # <<>>
    THEN LET joined == st.last_name \o Space \o Strip(line.text)
             k == Len(st.participants)
         IN  [st EXCEPT !.last_name = joined, !.participants[k].Name = joined]
    ELSE st

RECURSIVE ParseLines(_, _)
ParseLines(st, lines) ==
    IF lines = <<>> THEN st ELSE ParseLines(ParseLine(st, Head(lines)), Tail(lines))

\* parse_pdf_lottery_data
ParsePdf(lines) ==
    ParseLines([participants |-> <<>>, last_name |-> <<>>, name_count |-> NoPlayers],
               lines).participants

\* save_participants_to_csv / save_to_csv
SaveParticipants(participants) == [exists |-> TRUE, rows |-> participants]

\* ------------------------------------------------------- standings (report)
\* the three-way marking of one chosen number inside number_str, by the rank of the
\* text it produces: "\033[1m..." (new) < "\033[32m..." (matched) < " 5" (plain)
Mark(n, truly_new_correct, previous_correct, correct_in_draw) ==
    IF n \in truly_new_correct THEN 0
    ELSE IF n \in previous_correct \/ n \in correct_in_draw THEN 1
    ELSE 2

RECURSIVE NumberStr(_, _, _, _)
\* number_str as the sequence mark, number, mark, number, ...: the numbers are
\* printed two wide, so this order is the order of the strings
NumberStr(numbers, truly_new_correct, previous_correct, correct_in_draw) ==
    IF numbers = <<>> THEN <<>>
    ELSE <<Mark(Head(numbers), truly_new_correct, previous_correct, correct_in_draw),
           Head(numbers)>>
         \o NumberStr(Tail(numbers), truly_new_correct, previous_correct, correct_in_draw)

\* (mutation of TrulyNewCorrect: the earlier matches are not subtracted)
TrulyNewCorrectOfDraw(correct_in_draw, previous_correct, is_latest_draw) ==
    IF is_latest_draw THEN correct_in_draw ELSE {}

\* correct_in_draw - previous_correct if is_latest_draw else set()
TrulyNewCorrect(correct_in_draw, previous_correct, is_latest_draw) ==
    IF is_latest_draw THEN correct_in_draw \ previous_correct ELSE {}

\* one pass of "for idx, row in participants.iterrows()": the results tuple
\* (total_correct, new_correct, name, number_str)
ResultRow(prog, row, winning_numbers, is_latest_draw) ==
    LET numbers == Sorted(row.numbers)
        previous_correct == Range(CorrectNumbers(prog, row.Name))
        correct_in_draw == {n \in Range(numbers) : n \in Range(winning_numbers)}
        truly_new_correct == TrulyNewCorrect(correct_in_draw, previous_correct, is_latest_draw)
    IN  <<Cardinality(previous_correct \cup correct_in_draw),
          IF is_latest_draw THEN Cardinality(truly_new_correct) ELSE 0,
          row.Name,
          NumberStr(numbers, truly_new_correct, previous_correct, correct_in_draw)>>

\* the player_results entry of the same pass
PlayerResult(row, winning_numbers) ==
    <<row.Name, Filter(Sorted(row.numbers), Range(winning_numbers))>>

\* Python's tuple "<" on results entries
TupleLess(a, b) ==
    IF a[1] # b[1] THEN a[1] < b[1]
    ELSE IF a[2] # b[2] THEN a[2] < b[2]
    ELSE IF a[3] # b[3] THEN StrLess(a[3], b[3])
    ELSE StrLess(a[4], b[4])

RECURSIVE InsertDesc(_, _)
InsertDesc(s, x) ==
    IF s = <<>> THEN <<x>>
    ELSE IF TupleLess(Head(s), x) THEN <<x>> \o s
    ELSE <<Head(s)>> \o InsertDesc(Tail(s), x)

RECURSIVE InsertDescByCounts(_, _)
InsertDescByCounts(s, x) ==
    IF s = <<>> THEN <<x>>
    ELSE IF Head(s)[1] < x[1] \/ (Head(s)[1] = x[1] /\ Head(s)[2] < x[2]) THEN <<x>> \o s
    ELSE <<Head(s)>> \o InsertDescByCounts(Tail(s), x)

RECURSIVE SortResultsByCounts(_)
\* (mutation of SortResults: a stable sort on (total_correct, new_correct) alone)
SortResultsByCounts(results) ==
    IF results = <<>> THEN <<>>
    ELSE InsertDescByCounts(SortResultsByCounts(SubSeq(results, 1, Len(results) - 1)),
                            results[Len(results)])

RECURSIVE SortResults(_)
\* results.sort(reverse=True)
SortResults(results) ==
    IF results = <<>> THEN <<>>
    ELSE InsertDesc(SortResults(SubSeq(results, 1, Len(results) - 1)), results[Len(results)])

\* highest_scorers: every row whose total equals results[0][0]
HighestScorers(results) ==
    Filter(results, {r \in Range(results) : r[1] = results[1][1]})

\* filter_results (lottery.py) / brink_family (drawing.py); the empty prefix is
\* "no filter" (None and '' are both false in "if filter_family and ...")
FilterResults(results, filter_family) ==
    Filter(results, {r \in Range(results) :
                        filter_family # <<>> /\ StartsWith(r[3], filter_family)})

\* the rows for which "WINNER!" is printed, in either list
WinnerRows(results, filter_family) ==
    {r \in Range(HighestScorers(results)) \cup Range(FilterResults(results, filter_family)) :
        r[1] >= WinThreshold}

\* get_missing_numbers_info returns None: the progress file is absent, or reading
\* it raises inside the try
NoMissingInfo == [shown |-> FALSE, missing_nums |-> <<>>, winner_count |-> 0]

\* participants_df[participants_df['Name'] == player_name].iloc[0]
FirstRowNamed(rows, player_name) ==
    rows[CHOOSE i \in DOMAIN rows :
            /\ rows[i].Name = player_name
            /\ \A j \in DOMAIN rows : rows[j].Name = player_name => i <= j]

\* get_missing_numbers_info(player_name, winning_numbers) of lottery.py: computed from
\* the roster file and the progress file as they are when the line is printed
MissingNumbersInfo(rows, file, player_name) ==
    IF ~(file.exists /\ file.valid) THEN NoMissingInfo
    ELSE LET current_numbers == Range(CorrectNumbers(file.data, player_name))
             chosen_numbers == Range(FirstRowNamed(rows, player_name).numbers)
             missing_numbers == chosen_numbers \ current_numbers
             potential_winners ==
                 {i \in DOMAIN rows :
                     /\ rows[i].Name # player_name
                     /\ Cardinality(Range(CorrectNumbers(file.data, rows[i].Name)))
                          + Cardinality(missing_numbers \cap Range(rows[i].numbers))
                        >= WinThreshold}
         IN  [shown |-> TRUE, missing_nums |-> SetToSortedSeq(missing_numbers),
              winner_count |-> Cardinality(potential_winners)]

NoReport ==
    [printed |-> FALSE, draw_date |-> 0, winning_numbers |-> <<>>, is_latest |-> FALSE,
     filter_family |-> <<>>, results |-> <<>>, missing_info |-> <<>>]

\* --------------------------------------------------------------- parse_input
\* user_input.replace(',', ' ')
ReplaceCommas(s) == [i \in DOMAIN s |-> IF s[i] = 44 THEN 32 ELSE s[i]]

\* the length of the run of non-blank characters s starts with
RECURSIVE RunLength(_)
RunLength(s) == IF s = <<>> \/ Head(s) = 32 THEN 0 ELSE 1 + RunLength(Tail(s))

RECURSIVE Split(_)
\* str.split(): the maximal runs of non-blank characters
Split(s) ==
    IF s = <<>> THEN <<>>
    ELSE IF Head(s) = 32 THEN Split(Tail(s))
    ELSE <<SubSeq(s, 1, RunLength(s))>> \o Split(SubSeq(s, RunLength(s) + 1, Len(s)))

\* int(token) raises ValueError unless the token is digits after an optional sign
Unsigned(token) == IF token # <<>> /\ Head(token) \in {43, 45} THEN Tail(token) ELSE token

IsInt(token) ==
    Unsigned(token) # <<>> /\ \A i \in DOMAIN Unsigned(token) : Unsigned(token)[i] \in 48..57

RECURSIVE DigitsValue(_)
DigitsValue(d) ==
    IF d = <<>> THEN 0 ELSE 10 * DigitsValue(SubSeq(d, 1, Len(d) - 1)) + (d[Len(d)] - 48)

\* int(token)
IntOf(token) ==
    IF Head(token) = 45 THEN 0 - DigitsValue(Unsigned(token)) ELSE DigitsValue(Unsigned(token))

\* (mutation of InRange: every integer passes)
InRangeAny(n) == n = n

\* 1 <= n <= 45
InRange(n) == NumMin <= n /\ n <= NumMax

NoneEntered == [kind |-> "none", numbers |-> <<>>]
InputEnded == [kind |-> "eof", numbers |-> <<>>]

RECURSIVE ParseInput(_)
\* parse_input on the lines the user types, one per prompt: None for a blank line,
\* sorted(numbers) for a line that passes, "return parse_input()" for any other;
\* input() raises EOFError when the lines have run out
ParseInput(lines) ==
    IF lines = <<>> THEN InputEnded
    ELSE LET user_input == Strip(Head(lines))
             tokens == Split(ReplaceCommas(user_input))
             numbers == [i \in DOMAIN tokens |-> IntOf(tokens[i])]
         IN  IF user_input = <<>> THEN NoneEntered
             ELSE IF \E i \in DOMAIN tokens : ~IsInt(tokens[i]) THEN ParseInput(Tail(lines))
             ELSE IF Len(numbers) # DrawSize THEN ParseInput(Tail(lines))
             ELSE IF ~(\A i \in DOMAIN numbers : InRange(numbers[i]))
             THEN ParseInput(Tail(lines))
             ELSE IF Cardinality(Range(numbers)) # DrawSize THEN ParseInput(Tail(lines))
             ELSE [kind |-> "numbers", numbers |-> Sorted(numbers)]

\* ------------------------------------------------------------------- inputs
RECURSIVE Line(_, _)
\* the text of a line: the tokens with one separator between them
Line(tokens, sep) ==
    IF tokens = <<>> THEN <<>>
    ELSE IF Len(tokens) = 1 THEN Head(tokens)
    ELSE Head(tokens) \o sep \o Line(Tail(tokens), sep)

NumbersLine(numbers, sep) == Line([i \in DOMAIN numbers |-> Digits(numbers[i])], sep)

\* what a user types at the prompts of parse_input, line by line: nothing; blanks;
\* a draw, unsorted and comma separated; a draw after six lines that are refused
\* (too few, a repeated number, 0, 46, a word, too many); nothing after a refused
\* line; a refused line and then the end of the input
InputPool ==
    {<< <<>> >>,
     << <<32, 32>> >>,
     << NumbersLine(<<6, 5, 4, 3, 2, 1>>, <<44>>) \o Space >>,
     << NumbersLine(<<1, 2, 3>>, Space),
        NumbersLine(<<1, 1, 2, 3, 4, 5>>, Space),
        NumbersLine(<<0, 1, 2, 3, 4, 5>>, Space),
        NumbersLine(<<1, 2, 3, 4, 5, 46>>, <<44, 32>>),
        Line(<<Digits(1), Digits(2), Al, Digits(4), Digits(5), Digits(6)>>, Space),
        NumbersLine(<<1, 2, 3, 4, 5, 6, 7>>, Space),
        NumbersLine(<<11, 10, 9, 8, 7, 6>>, Space) >>,
     << NumbersLine(<<1, 2, 3, 4, 5, 6, 7>>, Space), <<>> >>,
     << Line(<<Digits(1), <<45>> \o Digits(2)>>, Space) >>}

\* what parse_input returns, or how it ends, on those lines
EnteredPool == {ParseInput(typed) : typed \in InputPool}

\* the day the clock shows ("now") when a date is made up for an empty ledger
ClockPool == {0}

\* what a user types at get_draw_date: nothing (the suggested date is taken), or
\* one date, which the ledger may already hold
DateInputPool == {<<>>, <<0>>}

\* the PDF files given on the command line: one with a repeated name, one whose
\* names continue on the next line, and a path that is no file
PdfA == [is_file |-> TRUE,
         lines |-> <<SkipLine,
                     RowLine(Al, <<4, 5, 6, 7, 8, 9, 41, 43, 45, 44>>),
                     RowLine(Brink, <<1, 2, 3, 4, 5, 6, 7, 8, 9, 10>>),
                     RowLine(Brink, <<2, 4, 6, 7, 8, 10, 41, 43, 44, 45>>)>>]
PdfB == [is_file |-> TRUE,
         lines |-> <<RowLine(Jan, <<1, 2, 3, 4, 5, 6, 7, 8, 9, 10>>), TextLine(Smit),
                     RowLine(Jan, <<11, 12, 13, 14, 15, 16, 17, 18, 19, 20>>), TextLine(Smit),
                     RowLine(Al, <<2, 3, 4, 5, 6, 7, 8, 9, 10, 11>>)>>]
NoPdf == [is_file |-> FALSE, lines |-> <<>>]
PdfPool == {PdfA, PdfB, NoPdf}

\* the values of FILTER_FAMILY in .env (absent: the empty prefix)
FilterPool == {<<>>, Brink}

\* the family names given to the future-winner analysis (sys.argv[2])
FamilyPool == {Brink, Al, Jan}

\* -------------------------------------------------------------------- state
VARIABLES
    participants_file,  \* data/lottery_participants.csv: [exists, rows]
    trekking,           \* data/trekking.csv: the rows, in file order (absent = empty)
    progress_file,      \* data/lottery_progress.json: [exists, valid, error, data]
    pc,                 \* where the running command stands ("idle": none runs)
    progress,           \* self.progress / tracker.progress of the running command
    unprocessed,        \* drawing.py: the backlog still to fold in this run
    found_unprocessed,  \* drawing.py main: found_unprocessed
    report,             \* what the last check_participants printed
    latestFlags,        \* is_latest_draw of every check_participants call of this run
    lastFold,           \* the (date, numbers) of the last fold into the current store
    refold,             \* the last fold of this run repeated the fold before it
    completed,          \* the last command returned normally with a roster present
    projection,         \* the future-winner analysis printed since the files last changed
    load_result,        \* how load_progress ended in the last command that called it
    bootstrap           \* start_new_lottery, if it ran last: what it returned, and how
                        \* many ledger rows and store entries it removed

vars == <<participants_file, trekking, progress_file, pc, progress, unprocessed,
          found_unprocessed, report, latestFlags, lastFold, refold, completed,
          projection, load_result, bootstrap>>

NoFold == [date |-> -1, numbers |-> <<>>]

NoBootstrap == [returned |-> "none", removed |-> 0, dropped |-> 0]

NoProjection == [printed |-> FALSE, family |-> <<>>, members |-> <<>>]

Init ==
    /\ participants_file = NoRoster
    /\ trekking = <<>>
    /\ progress_file = NoProgressFile
    /\ pc = "idle"
    /\ progress = EmptyProgress
    /\ unprocessed = <<>>
    /\ found_unprocessed = FALSE
    /\ report = NoReport
    /\ latestFlags = <<>>
    /\ lastFold = NoFold
    /\ refold = FALSE
    /\ completed = FALSE
    /\ projection = NoProjection
    /\ load_result = "none"
    /\ bootstrap = NoBootstrap

\* ------------------------------------------------------------ ledger (files)
\* get_unprocessed_draws: the rows whose date is not in processed_draws, in file order
RECURSIVE GetUnprocessedDraws(_, _)
GetUnprocessedDraws(rows, prog) ==
    IF rows = <<>> THEN <<>>
    ELSE (IF Head(rows).date \notin Range(prog.processed_draws)
          THEN <<[numbers |-> Sorted(Head(rows).numbers), date |-> Head(rows).date]>>
          ELSE <<>>)
         \o GetUnprocessedDraws(Tail(rows), prog)

\* the date add_to_trekking (drawing.py) gives, and get_draw_date (lottery.py) suggests
SuggestedDate(rows, now) ==
    IF rows = <<>> THEN now ELSE rows[Len(rows)].date + WeekDays

\* add_to_trekking: one row appended
AddToTrekking(rows, numbers, draw_date) ==
    Append(rows, [date |-> draw_date, numbers |-> numbers])

\* a command that is no default command starts: what the last default command
\* printed and held is gone
LastRunForgotten ==
    /\ report' = NoReport
    /\ latestFlags' = <<>>
    /\ refold' = FALSE
    /\ completed' = FALSE
    /\ unprocessed' = <<>>
    /\ found_unprocessed' = FALSE

\* LotteryTracker() / LotteryManager() raises out of load_progress: the command dies
\* before it has read or written anything else
ConstructorRaises ==
    /\ pc = "idle"
    /\ LoadRaises(progress_file)
    /\ load_result' = "failed"
    /\ progress' = EmptyProgress
    /\ LastRunForgotten
    /\ projection' = NoProjection
    /\ bootstrap' = NoBootstrap
    /\ UNCHANGED <<participants_file, trekking, progress_file, pc, lastFold>>

\* ------------------------------------------------------------------ the fold
\* check_participants with a roster: the report, then update_progress and its save.
\* killed: the process is stopped inside save_progress, after the report was printed.
\* with_missing_info: lottery.py, which prints a "missing:" line under each family row.
CheckParticipants(winning_numbers, draw_date, is_latest_draw, filter_family, killed, with_missing_info) ==
    LET rows == participants_file.rows
        results == [i \in 1..Len(rows) |->
                       ResultRow(progress, rows[i], winning_numbers, is_latest_draw)]
        player_results == [i \in 1..Len(rows) |-> PlayerResult(rows[i], winning_numbers)]
        updated == UpdateProgress(progress, player_results, draw_date)
        this == [date |-> draw_date, numbers |-> winning_numbers]
        filter_results == FilterResults(SortResults(results), filter_family)
    IN  /\ report' = [printed |-> TRUE, draw_date |-> draw_date,
                      winning_numbers |-> winning_numbers, is_latest |-> is_latest_draw,
                      filter_family |-> filter_family, results |-> SortResults(results),
                      missing_info |->
                          IF with_missing_info
                          THEN [i \in DOMAIN filter_results |->
                                   MissingNumbersInfo(rows, progress_file,
                                                      filter_results[i][3])]
                          ELSE <<>>]
        /\ progress' = updated
        /\ progress_file' = IF killed THEN TornProgressFile ELSE SaveProgress(updated)
        /\ latestFlags' = Append(latestFlags, is_latest_draw)
        /\ lastFold' = IF killed THEN NoFold ELSE this
        /\ refold' = (~killed /\ lastFold = this)

NoFoldHere == UNCHANGED <<progress, progress_file, report, latestFlags, lastFold, refold>>

\* the command ends: by an uncaught exception or a kill (not normally), or by returning
Ended(normally) ==
    /\ pc' = "idle"
    /\ completed' = (normally /\ participants_file.exists)

\* ---------------------------------------------------------- drawing.py main
\* LotteryTracker() and get_unprocessed_draws
DrStart ==
    /\ pc = "idle"
    /\ bootstrap' = NoBootstrap
    /\ ~LoadRaises(progress_file)
    /\ load_result' = LoadResult(progress_file)
    /\ LET loaded == LoadProgress(progress_file)
           backlog == GetUnprocessedDraws(trekking, loaded)
       IN  /\ progress' = loaded
           /\ progress_file' = IF progress_file.exists THEN progress_file
                               ELSE SaveProgress(loaded)
           /\ unprocessed' = backlog
           /\ found_unprocessed' = (backlog # <<>>)
           /\ pc' = IF backlog # <<>> THEN "dr_backlog" ELSE "dr_input"
    /\ report' = NoReport
    /\ latestFlags' = <<>>
    /\ refold' = FALSE
    /\ completed' = FALSE
    /\ projection' = NoProjection
    /\ UNCHANGED <<participants_file, trekking, lastFold>>

\* one pass of the loop of process_all_unprocessed_draws; pd.read_csv of a missing
\* roster raises and the command dies
DrBacklog(killed) ==
    /\ pc = "dr_backlog"
    /\ IF participants_file.exists
       THEN /\ CheckParticipants(Head(unprocessed).numbers, Head(unprocessed).date,
                                 Len(unprocessed) = 1, Brink, killed, FALSE)
            /\ unprocessed' = Tail(unprocessed)
            /\ pc' = IF killed THEN "idle"
                     ELSE IF Len(unprocessed) = 1 THEN "dr_input" ELSE "dr_backlog"
            /\ UNCHANGED completed
       ELSE NoFoldHere /\ Ended(FALSE) /\ UNCHANGED unprocessed
    /\ UNCHANGED <<participants_file, trekking, found_unprocessed, projection,
                   load_result, bootstrap>>

\* parse_input returns None: the latest draw is shown unless a backlog was folded
DrInputNone(entered, killed) ==
    /\ pc = "dr_input"
    /\ entered.kind = "none"
    /\ IF found_unprocessed \/ trekking = <<>>
       THEN NoFoldHere /\ Ended(TRUE)
       ELSE IF participants_file.exists
       THEN /\ CheckParticipants(Sorted(trekking[Len(trekking)].numbers),
                                 trekking[Len(trekking)].date, TRUE, Brink, killed, FALSE)
            /\ Ended(~killed)
       ELSE NoFoldHere /\ Ended(FALSE)
    /\ UNCHANGED <<participants_file, trekking, unprocessed, found_unprocessed, projection,
                   load_result, bootstrap>>

\* parse_input returns six numbers: add_to_trekking, then check_participants
DrInputDraw(entered, now, killed) ==
    /\ pc = "dr_input"
    /\ entered.kind = "numbers"
    /\ Len(trekking) < MaxLedger
    /\ LET numbers == entered.numbers
           draw_date == SuggestedDate(trekking, now)
       IN  /\ trekking' = AddToTrekking(trekking, numbers, draw_date)
           /\ IF participants_file.exists
              THEN CheckParticipants(numbers, draw_date, TRUE, Brink, killed, FALSE)
                   /\ Ended(~killed)
              ELSE NoFoldHere /\ Ended(FALSE)
    /\ UNCHANGED <<participants_file, unprocessed, found_unprocessed, projection,
                   load_result, bootstrap>>

\* ------------------------------------------ lottery.py run_interactive_mode
\* LotteryManager() and the roster check of run_interactive_mode
LmStart ==
    /\ pc = "idle"
    /\ bootstrap' = NoBootstrap
    /\ ~LoadRaises(progress_file)
    /\ load_result' = LoadResult(progress_file)
    /\ progress' = LoadProgress(progress_file)
    /\ pc' = IF participants_file.exists THEN "lm_standings" ELSE "idle"
    /\ report' = NoReport
    /\ latestFlags' = <<>>
    /\ refold' = FALSE
    /\ completed' = FALSE
    /\ unprocessed' = <<>>
    /\ found_unprocessed' = FALSE
    /\ projection' = NoProjection
    /\ UNCHANGED <<participants_file, trekking, progress_file, lastFold>>

\* show_current_standings
LmStandings(filter_family, killed) ==
    /\ pc = "lm_standings"
    /\ IF trekking # <<>> /\ participants_file.exists
       THEN /\ CheckParticipants(Sorted(trekking[Len(trekking)].numbers),
                                 trekking[Len(trekking)].date, TRUE, filter_family, killed,
                                 TRUE)
            /\ pc' = IF killed THEN "idle" ELSE "lm_input"
       ELSE NoFoldHere /\ pc' = "lm_input"
    /\ UNCHANGED <<participants_file, trekking, unprocessed, found_unprocessed, completed,
                   projection, load_result, bootstrap>>

\* parse_input returns None: "Goodbye!"
LmInputNone(entered) ==
    /\ pc = "lm_input"
    /\ entered.kind = "none"
    /\ NoFoldHere
    /\ Ended(TRUE)
    /\ UNCHANGED <<participants_file, trekking, unprocessed, found_unprocessed, projection,
                   load_result, bootstrap>>

\* parse_input returns six numbers; get_draw_date returns the typed date, or the
\* suggested one for an empty line; add_to_trekking; check_participants
LmInputDraw(entered, now, date_input, filter_family, killed) ==
    /\ pc = "lm_input"
    /\ entered.kind = "numbers"
    /\ Len(trekking) < MaxLedger
    /\ LET numbers == entered.numbers
           draw_date == IF date_input # <<>> THEN date_input[1]
                        ELSE SuggestedDate(trekking, now)
       IN  /\ trekking' = AddToTrekking(trekking, numbers, draw_date)
           /\ IF participants_file.exists
              THEN CheckParticipants(numbers, draw_date, TRUE, filter_family, killed, TRUE)
                   /\ Ended(~killed)
              ELSE NoFoldHere /\ Ended(TRUE)
    /\ UNCHANGED <<participants_file, unprocessed, found_unprocessed, projection,
                   load_result, bootstrap>>

\* input() raises EOFError inside parse_input: either command dies at its prompt
InputEnds(entered) ==
    /\ pc \in {"dr_input", "lm_input"}
    /\ entered.kind = "eof"
    /\ NoFoldHere
    /\ Ended(FALSE)
    /\ UNCHANGED <<participants_file, trekking, unprocessed, found_unprocessed, projection,
                   load_result, bootstrap>>

\* ------------------------------------------------------------- bootstrapping
\* (mutation of ClearedTrekking: the ledger file is not removed)
TrekkingKept(rows) == rows

\* "if os.path.exists(self.trekking_file): os.remove(self.trekking_file)"
ClearedTrekking(rows) == <<>>

\* lottery.py <pdf_file>: start_new_lottery
StartNewLottery(pdf) ==
    /\ pc = "idle"
    /\ ~LoadRaises(progress_file)
    /\ load_result' = LoadResult(progress_file)
    /\ IF pdf.is_file
       THEN /\ participants_file' = SaveParticipants(ParsePdf(pdf.lines))
            /\ progress' = EmptyProgress
            /\ progress_file' = SaveProgress(EmptyProgress)
            /\ trekking' = ClearedTrekking(trekking)
            /\ lastFold' = NoFold
            /\ bootstrap' = [returned |-> "True", removed |-> Len(trekking),
                              dropped |->
                                  Cardinality(DOMAIN LoadProgress(progress_file).players)]
       ELSE /\ progress' = LoadProgress(progress_file)
            /\ bootstrap' = [returned |-> "False", removed |-> 0, dropped |-> 0]
            /\ UNCHANGED <<participants_file, progress_file, trekking, lastFold>>
    /\ LastRunForgotten
    /\ projection' = NoProjection
    /\ UNCHANGED pc

\* pdf_parser.py <pdf_path>: process_lottery_pdf
ProcessLotteryPdf(pdf) ==
    /\ pc = "idle"
    /\ IF pdf.is_file
       THEN participants_file' = SaveParticipants(ParsePdf(pdf.lines)) /\ lastFold' = NoFold
       ELSE UNCHANGED <<participants_file, lastFold>>
    /\ progress' = EmptyProgress
    /\ LastRunForgotten
    /\ projection' = NoProjection
    /\ load_result' = "none"
    /\ bootstrap' = NoBootstrap
    /\ UNCHANGED <<trekking, progress_file, pc>>

\* the content of the progress file is replaced outside the program; what commands
\* printed and held of the old content is gone
ProgressFileDamaged ==
    /\ pc = "idle"
    /\ progress_file.exists
    /\ progress_file' = DamagedProgressFile
    /\ lastFold' = NoFold
    /\ progress' = EmptyProgress
    /\ LastRunForgotten
    /\ projection' = NoProjection
    /\ load_result' = "none"
    /\ bootstrap' = NoBootstrap
    /\ UNCHANGED <<participants_file, trekking, pc>>

\* ------------------------------------------------------ future-winner analysis
RECURSIVE SortedNames(_)
\* sorted(a set of names)
SortedNames(S) ==
    IF S = {} THEN <<>>
    ELSE LET m == CHOOSE x \in S : \A y \in S : x = y \/ StrLess(x, y)
         IN  <<m>> \o SortedNames(S \ {m})

\* participants_df[participants_df['Name'].str.startswith(family_name)]
FamilyMembers(rows, family_name) ==
    Filter(rows, {r \in Range(rows) : StartsWith(r.Name, family_name)})

\* (mutation of OtherRows: the member's own row is not skipped)
OtherRowsAll(rows, name) == Range(rows)

\* the rows the inner loop does not skip: "if participant_name == name: continue"
OtherRows(rows, name) == {r \in Range(rows) : r.Name # name}

\* potential_winners: the names added by the inner loop
PotentialWinners(rows, prog, name, missing_numbers) ==
    {r.Name : r \in {q \in OtherRows(rows, name) :
                        Cardinality(Range(CorrectNumbers(prog, q.Name)))
                          + Cardinality(missing_numbers \cap Range(q.numbers))
                        >= WinThreshold}}

\* one pass of "for _, family_member in family_members.iterrows()"
MemberResult(rows, prog, family_member) ==
    LET current_numbers == Range(CorrectNumbers(prog, family_member.Name))
        missing_numbers == Range(family_member.numbers) \ current_numbers
    IN  [name |-> family_member.Name,
         current_correct |-> Cardinality(current_numbers),
         missing_numbers |-> SetToSortedSeq(missing_numbers),
         potential_winners |->
             SortedNames(PotentialWinners(rows, prog, family_member.Name, missing_numbers))]

\* member_results[name] = ...: a later row of the same name replaces the earlier one
LastRowNamed(members, name) ==
    members[CHOOSE i \in DOMAIN members :
               /\ members[i].Name = name
               /\ \A j \in DOMAIN members : members[j].Name = name => j <= i]

\* future_winners.py: member_results, shown "for member_name in sorted(member_results.keys())"
FwMemberResults(rows, prog, family_name) ==
    LET members == FamilyMembers(rows, family_name)
        names == SortedNames({members[i].Name : i \in DOMAIN members})
    IN  [i \in DOMAIN names |-> MemberResult(rows, prog, LastRowNamed(members, names[i]))]

\* lottery.py analyze_future_winners: one block per family row, in roster order
LmMemberResults(rows, prog, family_name) ==
    LET members == FamilyMembers(rows, family_name)
    IN  [i \in DOMAIN members |-> MemberResult(rows, prog, members[i])]

\* python future_winners.py -en <family_name>: read_csv, json.load or
\* progress['players'] raise when a file is missing or the progress text is no dump
\* of a store, and nothing is printed
FutureWinners(family_name) ==
    /\ pc = "idle"
    /\ projection' =
          IF participants_file.exists /\ progress_file.exists /\ progress_file.valid
          THEN [printed |-> TRUE, family |-> family_name,
                members |-> FwMemberResults(participants_file.rows, progress_file.data,
                                            family_name)]
          ELSE NoProjection
    /\ progress' = LoadProgress(progress_file)
    /\ LastRunForgotten
    /\ load_result' = "none"
    /\ bootstrap' = NoBootstrap
    /\ UNCHANGED <<participants_file, trekking, progress_file, pc, lastFold>>

\* LotteryManager().analyze_future_winners(family_name)
LmAnalyzeFutureWinners(family_name) ==
    /\ pc = "idle"
    /\ ~LoadRaises(progress_file)
    /\ load_result' = LoadResult(progress_file)
    /\ progress' = LoadProgress(progress_file)
    /\ projection' =
          IF /\ participants_file.exists /\ progress_file.exists /\ progress_file.valid
             /\ FamilyMembers(participants_file.rows, family_name) # <<>>
          THEN [printed |-> TRUE, family |-> family_name,
                members |-> LmMemberResults(participants_file.rows, progress_file.data,
                                            family_name)]
          ELSE NoProjection
    /\ LastRunForgotten
    /\ bootstrap' = NoBootstrap
    /\ UNCHANGED <<participants_file, trekking, progress_file, pc, lastFold>>

Next ==
    \/ DrStart
    \/ \E killed \in BOOLEAN : DrBacklog(killed)
    \/ \E entered \in EnteredPool, killed \in BOOLEAN : DrInputNone(entered, killed)
    \/ \E entered \in EnteredPool, now \in ClockPool, killed \in BOOLEAN :
          DrInputDraw(entered, now, killed)
    \/ LmStart
    \/ \E ff \in FilterPool, killed \in BOOLEAN : LmStandings(ff, killed)
    \/ \E entered \in EnteredPool : LmInputNone(entered)
    \/ \E entered \in EnteredPool, now \in ClockPool, date_input \in DateInputPool,
          ff \in FilterPool, killed \in BOOLEAN :
          LmInputDraw(entered, now, date_input, ff, killed)
    \/ \E entered \in EnteredPool : InputEnds(entered)
    \/ \E pdf \in PdfPool : StartNewLottery(pdf)
    \/ \E pdf \in PdfPool : ProcessLotteryPdf(pdf)
    \/ \E family_name \in FamilyPool : FutureWinners(family_name)
    \/ \E family_name \in FamilyPool : LmAnalyzeFutureWinners(family_name)
    \/ ProgressFileDamaged
    \/ ConstructorRaises

Spec == Init /\ [][Next]_vars

\* ------------------------------------------------------------------- claims
\* a step that is one fold (one check_participants call that reached update_progress)
FoldStep == Len(latestFlags') = Len(latestFlags) + 1 /\ progress_file'.valid

RosterRows == participants_file.rows

Grows(before, after) ==
    \A n \in DOMAIN before :
        /\ n \in DOMAIN after
        /\ Range(before[n].correct_numbers) \subseteq Range(after[n].correct_numbers)
        /\ before[n].total_correct <= after[n].total_correct

\* C1: across every fold, each participant's correct_numbers after the fold holds all
\* the numbers it held before, and total_correct does not decrease, in the store of
\* the running command and in the saved file.
C1_MonotonicAccumulation ==
    [][FoldStep => /\ Grows(progress.players, progress'.players)
                   /\ Grows(progress_file.data.players, progress_file'.data.players)]_vars

\* a fold has added matches to an entry that already held matches of an earlier draw
C1_Witness ==
    /\ report.printed
    /\ \E n \in DOMAIN progress.players :
          LET got == Range(progress.players[n].correct_numbers)
          IN  /\ got \cap Range(report.winning_numbers) # {}
              /\ got \ Range(report.winning_numbers) # {}

\* C2: a fold of the draw (same date, same numbers) that the fold before it folded
\* leaves players and processed_draws, in memory and on file, as that fold left them.
C2_FoldTwiceIsFoldOnce ==
    [][(FoldStep /\ lastFold = [date |-> report'.draw_date,
                                numbers |-> report'.winning_numbers])
         => /\ progress'.players = progress.players
            /\ progress'.processed_draws = progress.processed_draws
            /\ progress_file' = progress_file]_vars

\* the same draw has been folded twice in a row into a store that holds matches
C2_Witness ==
    /\ refold
    /\ \E n \in DOMAIN progress.players : progress.players[n].total_correct > 0
    /\ report.draw_date \in Range(progress.processed_draws)

\* C3 (as claimed): a fold whose date is already in processed_draws changes neither
\* players nor processed_draws, whatever numbers come with the date.
C3_ProcessedKeyFoldIsNoOp ==
    [][(FoldStep /\ report'.draw_date \in Range(progress.processed_draws))
         => /\ progress'.players = progress.players
            /\ progress'.processed_draws = progress.processed_draws]_vars

\* C4 (as claimed): of the folds of one run only the last one has is_latest_draw = True.
C4_OnlyLastFoldIsLatest ==
    \A i \in 1..(Len(latestFlags) - 1) : latestFlags[i] = FALSE

\* C5 (as claimed, its first half): when a default command has returned with a roster
\* present, every row of the ledger has its date in processed_draws of the saved store.
C5_AllLedgerDrawsFolded ==
    completed =>
        \A i \in DOMAIN trekking :
            trekking[i].date \in Range(progress_file.data.processed_draws)

\* C6: in every fold the report gives each roster row new_correct =
\* |(chosen /\ winning) \ correct_numbers before this fold| when is_latest_draw is
\* True, where "before" is the store as the folds before it in the run left it, and 0
\* when is_latest_draw is False.
C6_NewlyCorrectAgainstStoreBefore ==
    [][FoldStep =>
         /\ Len(report'.results) = Len(RosterRows)
         /\ \A k \in DOMAIN RosterRows :
               \E i \in DOMAIN report'.results :
                  /\ report'.results[i][3] = RosterRows[k].Name
                  /\ report'.results[i][2] =
                        IF report'.is_latest
                        THEN Cardinality((Range(RosterRows[k].numbers)
                                            \cap Range(report'.winning_numbers))
                                         \ Range(CorrectNumbers(progress, RosterRows[k].Name)))
                        ELSE 0]_vars

\* a backlog of two draws was folded in one run, the second as the latest, and a row
\* matched in it both numbers it already held after the first and numbers it did not
C6_Witness ==
    /\ latestFlags = <<FALSE, TRUE>>
    /\ \E k \in DOMAIN RosterRows, i \in DOMAIN report.results :
          /\ report.results[i][3] = RosterRows[k].Name
          /\ report.results[i][2] > 0
          /\ report.results[i][2] <
                Cardinality(Range(RosterRows[k].numbers) \cap Range(report.winning_numbers))

\* C7: in the store of the running command and in the saved file, total_correct of
\* every entry is the number of distinct elements of its correct_numbers.
C7_TotalIsCardinality ==
    \A store \in {progress, progress_file.data} :
        \A n \in DOMAIN store.players :
            store.players[n].total_correct
                = Cardinality(Range(store.players[n].correct_numbers))

\* a draw was folded again into an entry that already held some of its numbers
C7_Witness ==
    /\ refold
    /\ progress_file.exists
    /\ \E n \in DOMAIN progress_file.data.players :
          /\ progress_file.data.players[n].total_correct > 0
          /\ Range(progress_file.data.players[n].correct_numbers)
                \cap Range(report.winning_numbers) # {}

\* C8 (as claimed): the correct_numbers of every roster row's entry are among the
\* row's ten numbers, and each occurs in a ledger draw whose date is processed.
C8_CorrectWithinChosenAndDrawn ==
    \A k \in DOMAIN RosterRows :
        \A n \in Range(CorrectNumbers(progress_file.data, RosterRows[k].Name)) :
            /\ n \in Range(RosterRows[k].numbers)
            /\ \E i \in DOMAIN trekking :
                  /\ trekking[i].date \in Range(progress_file.data.processed_draws)
                  /\ n \in Range(trekking[i].numbers)

SameCounts(a, b) == a[1] = b[1] /\ a[2] = b[2]

CountsDescending(a, b) == a[1] > b[1] \/ (a[1] = b[1] /\ a[2] >= b[2])

\* C9 (as claimed): standings are ordered by (total_correct, new_correct) descending,
\* and rows with equal counts stand in their roster order.
C9_TiesInRosterOrder ==
    \A i, j \in DOMAIN report.results :
        i < j =>
            /\ CountsDescending(report.results[i], report.results[j])
            /\ SameCounts(report.results[i], report.results[j])
                  => \E a, b \in DOMAIN RosterRows :
                        /\ a <= b
                        /\ RosterRows[a].Name = report.results[i][3]
                        /\ RosterRows[b].Name = report.results[j][3]

\* C9 (amended): standings are ordered by (total_correct, new_correct) descending,
\* and rows with equal counts and different names stand in descending order of name.
C9_TiesByNameDescending ==
    \A i, j \in DOMAIN report.results :
        i < j =>
            /\ CountsDescending(report.results[i], report.results[j])
            /\ (SameCounts(report.results[i], report.results[j])
                  /\ report.results[i][3] # report.results[j][3])
                  => StrLess(report.results[j][3], report.results[i][3])

\* a report with rows of different totals and two rows of equal counts whose names
\* stand in the roster in ascending order
C9_Witness ==
    /\ report.printed
    /\ \E i, j \in DOMAIN report.results :
          /\ i < j
          /\ SameCounts(report.results[i], report.results[j])
          /\ report.results[i][1] > 0
          /\ \E a, b \in DOMAIN RosterRows :
                /\ a > b
                /\ RosterRows[a].Name = report.results[i][3]
                /\ RosterRows[b].Name = report.results[j][3]
                /\ RosterRows[a].Name # RosterRows[b].Name
    /\ \E i \in DOMAIN report.results : report.results[i][1] # report.results[1][1]

\* C10 (as claimed): in every report a row is announced as winner exactly when its
\* total_correct is at least 10.
C10_WinnerIffThreshold ==
    \A r \in Range(report.results) :
        (r \in WinnerRows(report.results, report.filter_family)) <=> (r[1] >= WinThreshold)

\* C11: every block of a future-winner analysis is the projection of a roster row P of
\* the family: its missing numbers are chosen(P) \ correct_numbers(P), its winners are
\* exactly the names p # P of rows with |correct_numbers(p)| + |missing /\ chosen(p)|
\* >= 10, P's own name is not among them, and the winners stand in ascending order of
\* name; every name of the family has a block.
C11_ProjectionIsExact ==
    projection.printed =>
        /\ \A k \in DOMAIN RosterRows :
              StartsWith(RosterRows[k].Name, projection.family)
                 => \E i \in DOMAIN projection.members :
                       projection.members[i].name = RosterRows[k].Name
        /\ \A i \in DOMAIN projection.members :
              LET e == projection.members[i]
                  w == e.potential_winners
              IN  /\ \E k \in DOMAIN RosterRows :
                        LET missing == Range(RosterRows[k].numbers)
                                         \ Range(CorrectNumbers(progress_file.data, e.name))
                        IN  /\ RosterRows[k].Name = e.name
                            /\ StartsWith(e.name, projection.family)
                            /\ Range(e.missing_numbers) = missing
                            /\ \A a, b \in DOMAIN e.missing_numbers :
                                  a < b => e.missing_numbers[a] < e.missing_numbers[b]
                            /\ Range(w) =
                                 {RosterRows[q].Name : q \in
                                    {q \in DOMAIN RosterRows :
                                        /\ RosterRows[q].Name # e.name
                                        /\ Cardinality(Range(CorrectNumbers(
                                               progress_file.data, RosterRows[q].Name)))
                                             + Cardinality(missing
                                                 \cap Range(RosterRows[q].numbers))
                                           >= 10}}
                  /\ e.name \notin Range(w)
                  /\ \A a, b \in DOMAIN w : a < b => StrLess(w[a], w[b])

\* an analysis has printed, for a member with matches and with numbers still missing,
\* two winners, while another analysis of the same state would name none for a member
C11_Witness ==
    /\ projection.printed
    /\ \E i \in DOMAIN projection.members :
          /\ Len(projection.members[i].potential_winners) >= 2
          /\ projection.members[i].missing_numbers # <<>>
          /\ projection.members[i].current_correct > 0
    /\ \E k \in DOMAIN RosterRows :
          MemberResult(RosterRows, progress_file.data, RosterRows[k]).potential_winners = <<>>

ValidDraw(numbers) ==
    /\ Len(numbers) = 6
    /\ \A i \in DOMAIN numbers : numbers[i] \in 1..45
    /\ \A i, j \in DOMAIN numbers : i < j => numbers[i] < numbers[j]

\* C12: whatever lines are typed, parse_input returns None or six distinct integers of
\* 1..45 in ascending order (or the input ends); every row of the ledger and every
\* draw that was folded is such a list.
C12_OnlyValidDraws ==
    /\ \A typed \in InputPool :
          ParseInput(typed).kind = "numbers" => ValidDraw(ParseInput(typed).numbers)
    /\ \A i \in DOMAIN trekking : ValidDraw(trekking[i].numbers)
    /\ report.printed => ValidDraw(report.winning_numbers)

\* a draw that is only ever typed after refused lines (too few, repeated, out of
\* range, not a number, too many) stands in the ledger and was folded
C12_Witness ==
    /\ report.printed
    /\ \E i \in DOMAIN trekking :
          /\ trekking[i].numbers = report.winning_numbers
          /\ \A typed \in InputPool :
                ParseInput(typed) = [kind |-> "numbers", numbers |-> trekking[i].numbers]
                   => /\ Len(typed) > 6
                      /\ \A k \in 1..(Len(typed) - 1) :
                            ParseInput(<<typed[k]>>).kind = "eof"

\* C13 (as claimed): a row appended to the ledger has a date strictly later than the
\* date of every row the ledger already held.
C13_AppendedKeyIsLater ==
    [][Len(trekking') = Len(trekking) + 1
         => \A i \in DOMAIN trekking : trekking[i].date < trekking'[Len(trekking')].date]_vars

\* C14 (as claimed): whether a fold ends or the process is stopped in it, the store the
\* next run loads holds every match and every processed date that the store a run
\* would have loaded before held.
C14_NoMatchLostByCrash ==
    [][Len(latestFlags') = Len(latestFlags) + 1
         => /\ Grows(LoadProgress(progress_file).players, LoadProgress(progress_file').players)
            /\ Range(LoadProgress(progress_file).processed_draws)
                  \subseteq Range(LoadProgress(progress_file').processed_draws)]_vars

\* every row of the ledger is folded into the saved store: its date is in
\* processed_draws and its matches with every roster row are in that row's entry
AllFolded ==
    /\ progress_file.exists /\ progress_file.valid
    /\ \A i \in DOMAIN trekking :
          /\ trekking[i].date \in Range(progress_file.data.processed_draws)
          /\ \A k \in DOMAIN RosterRows :
                /\ RosterRows[k].Name \in DOMAIN progress_file.data.players
                /\ (Range(RosterRows[k].numbers) \cap Range(trekking[i].numbers))
                      \subseteq Range(progress_file.data.players[RosterRows[k].Name]
                                         .correct_numbers)

\* C15: when every ledger row is folded into the saved store, each step of a default
\* command in which no draw is entered (and which is not killed) leaves the ledger and
\* the saved players and processed_draws as they were, and a report it prints gives
\* new_correct = 0 on every row.
C15_RerunChangesNothing ==
    [][(/\ AllFolded
        /\ pc # "idle" \/ pc' # "idle"
        /\ trekking' = trekking
        /\ progress_file'.valid)
         => /\ progress_file'.data = progress_file.data
            /\ participants_file' = participants_file
            /\ Len(latestFlags') = Len(latestFlags) + 1
                  => \A i \in DOMAIN report'.results : report'.results[i][2] = 0]_vars

\* a default command was run again over a ledger of two folded draws: it folded the
\* last row anew as the latest, printed totals above 0, and returned
C15_Witness ==
    /\ AllFolded
    /\ refold
    /\ completed
    /\ report.is_latest
    /\ Len(trekking) >= 2
    /\ \E i \in DOMAIN report.results : report.results[i][1] > 0
    /\ \A k \in DOMAIN RosterRows :
          Range(RosterRows[k].numbers) \cap Range(report.winning_numbers) # {}

\* C16 (as claimed): while there is no roster file, no step appends a row to the
\* ledger or changes the players and processed_draws a run would load.
C16_NoRosterNoWrite ==
    [][(~participants_file.exists /\ ~participants_file'.exists)
         => /\ trekking' = trekking
            /\ LoadProgress(progress_file') = LoadProgress(progress_file)]_vars

\* C17 (as claimed): when the progress file exists and is no dump of a store, the
\* load_progress of a command that starts does not fail: the store in memory is the
\* empty store.
C17_LoadFallsBack ==
    [][(/\ pc = "idle"
        /\ load_result' # "none"
        /\ progress_file.exists /\ ~progress_file.valid)
         => /\ load_result' = "fresh"
            /\ progress' = EmptyProgress]_vars

\* C18: when start_new_lottery returns True the saved store and the store in memory
\* are empty and the ledger holds no row, so no roster row has a match; when it
\* returns False (the path is no file) roster, store and ledger are as they were.
C18_BootstrapResets ==
    [][/\ bootstrap'.returned = "True"
            => /\ progress_file'.exists /\ progress_file'.valid
               /\ progress_file'.data = EmptyProgress
               /\ progress' = EmptyProgress
               /\ trekking' = <<>>
               /\ participants_file'.exists
               /\ \A k \in DOMAIN participants_file'.rows :
                     CorrectNumbers(progress_file'.data, participants_file'.rows[k].Name) = <<>>
       /\ bootstrap'.returned = "False"
            => /\ participants_file' = participants_file
               /\ progress_file' = progress_file
               /\ trekking' = trekking]_vars

\* start_new_lottery has returned True over a pool that had draws in its ledger and
\* entries in its store
C18_Witness ==
    /\ bootstrap.returned = "True"
    /\ bootstrap.removed >= 2
    /\ bootstrap.dropped >= 2
    /\ trekking = <<>>
    /\ participants_file.exists
    /\ progress_file.data = EmptyProgress

\* C19 (as claimed): the roster written from a PDF has pairwise different names and
\* exactly 10 numbers in every row.
C19_RosterNamesDistinct ==
    participants_file.exists =>
        /\ \A i, j \in DOMAIN RosterRows : i # j => RosterRows[i].Name # RosterRows[j].Name
        /\ \A i \in DOMAIN RosterRows : Len(RosterRows[i].numbers) = 10

\* C20 (as claimed): under each family row of a lottery.py report the missing numbers
\* are the row's chosen numbers without the matches of the store after this fold, so
\* there are 10 - total_correct of them, total_correct being the total on the row.
C20_MissingFromStoreAfterFold ==
    \A i \in DOMAIN report.missing_info :
        LET row == FilterResults(report.results, report.filter_family)[i]
            info == report.missing_info[i]
        IN  info.shown =>
               /\ Range(info.missing_nums)
                    = Range(FirstRowNamed(RosterRows, row[3]).numbers)
                        \ Range(CorrectNumbers(progress, row[3]))
               /\ Len(info.missing_nums) = 10 - row[1]
====
